---- MODULE Spec2Model ----
(***************************************************************************)
(* thinc/layers/with_list2padded.py: the adapter that pads a list of      *)
(* variable-length sequences, runs an inner layer on the padded batch and  *)
(* unpads what the layer returns, forwards and backwards.                  *)
(*                                                                         *)
(* Indices are 1-based here: timestep t of the code is index t+1, batch    *)
(* item i of the code is index i+1.                                        *)
(***************************************************************************)
EXTENDS Integers, Sequences, FiniteSets

VARIABLES layer, closures, issued, ncalls, last, hist

vars == <<layer, closures, issued, ncalls, last, hist>>

(***************************************************************************)
(* Bounds of the model.                                                    *)
(***************************************************************************)
\* most sequences in one batch
MaxN == 3
\* longest sequence of a batch
MaxLen == 2
\* most forward calls of one behaviour of SpecCalls
MaxForward == 2

(***************************************************************************)
(* Arrays.  A 2-d array (one sequence) is [w, rows]: rows is a sequence of *)
(* rows, a row a sequence of w cells.  A 3-d array is [shape, cells] with  *)
(* shape = <<T, B, w>> and cells[t][b] a row (time-major).                 *)
(***************************************************************************)
Max(S) == IF S = {} THEN 0 ELSE CHOOSE m \in S : \A x \in S : x <= m

ZeroRow(w) == [f \in 1..w |-> 0]

EmptyArr == [shape |-> <<0, 0, 0>>, cells |-> <<>>]

AddToCells(arr, k) ==
    [shape |-> arr.shape,
     cells |-> [t \in 1..arr.shape[1] |->
                 [b \in 1..arr.shape[2] |->
                   [f \in 1..arr.shape[3] |-> arr.cells[t][b][f] + k]]]]

\* the error values the collaborators raise
ShapeMismatch == "ShapeMismatch"
LayerError == "LayerError"
NoError == "none"

(***************************************************************************)
(* ops.square_sequences (the pad operation of the numeric backend).        *)
(* Sorts the batch by decreasing length, pads it and transposes it to      *)
(* time-major; returns the padded array, the active-count sequence and the *)
(* information the unpad callback captures.  Items of equal length keep    *)
(* their original relative order.                                          *)
(***************************************************************************)
Rank(seqs, i) ==
    1 + Cardinality({j \in 1..Len(seqs) :
                       \/ Len(seqs[j].rows) > Len(seqs[i].rows)
                       \/ Len(seqs[j].rows) = Len(seqs[i].rows) /\ j < i})

SortedIndices(seqs) ==
    [b \in 1..Len(seqs) |-> CHOOSE i \in 1..Len(seqs) : Rank(seqs, i) = b]

square_sequences(seqs) ==
    LET n       == Len(seqs)
        widths  == {seqs[i].w : i \in 1..n}
        indices == SortedIndices(seqs)
        lengths == [b \in 1..n |-> Len(seqs[indices[b]].rows)]
        T       == Max({lengths[b] : b \in 1..n})
        w       == Max(widths)
    IN  IF Cardinality(widths) > 1
        THEN [ok |-> FALSE, err |-> ShapeMismatch, data |-> EmptyArr,
              size_at_t |-> <<>>, unpad |-> [indices |-> <<>>, lengths |-> <<>>]]
        ELSE [ok |-> TRUE, err |-> NoError,
              data |-> [shape |-> <<T, n, w>>,
                        cells |-> [t \in 1..T |->
                                    [b \in 1..n |->
                                      IF t <= lengths[b]
                                      THEN seqs[indices[b]].rows[t]
                                      ELSE ZeroRow(w)]]],
              size_at_t |-> [t \in 1..T |->
                              Cardinality({b \in 1..n : lengths[b] >= t})],
              unpad |-> [indices |-> indices, lengths |-> lengths]]

\* the unpad callback square_sequences returns, applied to a padded array
unpad(u, padded) ==
    [i \in 1..Len(u.indices) |->
       LET b == CHOOSE c \in 1..Len(u.indices) : u.indices[c] = i
       IN  [w |-> padded.shape[3],
            rows |-> [t \in 1..u.lengths[b] |-> padded.cells[t][b]]]]

\* types.Padded
Padded(data, size_at_t) == [data |-> data, size_at_t |-> size_at_t]

(***************************************************************************)
(* The inner layer (model.layers[0]): opaque to the adapter.  The model    *)
(* has one of four layers, fixed at construction:                          *)
(*   identity  returns its input, forwards and backwards;                  *)
(*   shift     keeps the shape and changes every cell, differently in      *)
(*             training and in evaluation, and per closure backwards;      *)
(*   widen     adds one feature forwards and removes one backwards;        *)
(*   raises    fails in forward and in initialize.                         *)
(* A layer keeps the time and batch dimensions of what it is given.        *)
(***************************************************************************)
LayerKinds == {"identity", "shift", "widen", "raises"}

Widen(arr) ==
    [shape |-> <<arr.shape[1], arr.shape[2], arr.shape[3] + 1>>,
     cells |-> [t \in 1..arr.shape[1] |->
                 [b \in 1..arr.shape[2] |-> Append(arr.cells[t][b], 7)]]]

Narrow(arr) ==
    LET w == IF arr.shape[3] > 0 THEN arr.shape[3] - 1 ELSE 0
    IN  [shape |-> <<arr.shape[1], arr.shape[2], w>>,
         cells |-> [t \in 1..arr.shape[1] |->
                     [b \in 1..arr.shape[2] |-> SubSeq(arr.cells[t][b], 1, w)]]]

\* model.layers[0](Xp, is_train): the padded output and the id of the
\* backward closure the layer hands out (a fresh one per call)
layer_forward(Xp, is_train) ==
    LET Ydata == CASE layer = "identity" -> Xp.data
                   [] layer = "shift"    ->
                        AddToCells(Xp.data, IF is_train THEN 10000 ELSE 20000)
                   [] OTHER              -> Widen(Xp.data)
    IN  IF layer = "raises"
        THEN [ok |-> FALSE, err |-> LayerError, Yp |-> Padded(EmptyArr, <<>>), bp |-> 0]
        ELSE [ok |-> TRUE, err |-> NoError, Yp |-> Padded(Ydata, Xp.size_at_t),
              bp |-> Len(issued) + 1]

\* backprop_layer(dYp), for the closure the layer handed out as id
layer_backward(id, dYp) ==
    LET dXdata == CASE layer = "identity" -> dYp.data
                    [] layer = "shift"    -> AddToCells(dYp.data, 30000 * id)
                    [] OTHER              -> Narrow(dYp.data)
    IN  [ok |-> TRUE, err |-> NoError, dXp |-> Padded(dXdata, dYp.size_at_t)]

\* model.layers[0].initialize(X=..., Y=...)
layer_initialize(X, Y) ==
    IF layer = "raises" THEN [ok |-> FALSE, err |-> LayerError]
                        ELSE [ok |-> TRUE, err |-> NoError]

(***************************************************************************)
(* The adapter.  Each operation returns what the caller sees (ok, err,     *)
(* out) and the calls it made to its collaborators, in order (events).     *)
(* An absent Optional is <<>>, a present one <<value>>.                    *)
(***************************************************************************)
Event(call, arg, aux) == [call |-> call, arg |-> arg, aux |-> aux]

Raise(err, events) ==
    [ok |-> FALSE, err |-> err, events |-> events, out |-> <<>>, bp |-> 0]

Return(out, events, bp) ==
    [ok |-> TRUE, err |-> NoError, events |-> events, out |-> out, bp |-> bp]

\* forward that returns the layer's output in the padded (length-sorted) order
forward_sorted_order(Xs, is_train) ==
    LET p  == square_sequences(Xs)
        Xp == Padded(p.data, p.size_at_t)
        r  == layer_forward(Xp, is_train)
        e1 == Event("square_sequences", Xs, 0)
        e2 == Event("layer", Xp, is_train)
        e3 == Event("unpad", r.Yp.data, 0)
        u  == [indices |-> [b \in 1..Len(Xs) |-> b], lengths |-> p.unpad.lengths]
    IN  IF ~p.ok THEN Raise(p.err, <<e1>>)
        ELSE IF ~r.ok THEN Raise(r.err, <<e1, e2>>)
        ELSE Return(unpad(u, r.Yp.data), <<e1, e2, e3>>, r.bp)

\* forward that returns every output sequence at the padded length
forward_untrimmed(Xs, is_train) ==
    LET p  == square_sequences(Xs)
        Xp == Padded(p.data, p.size_at_t)
        r  == layer_forward(Xp, is_train)
        e1 == Event("square_sequences", Xs, 0)
        e2 == Event("layer", Xp, is_train)
        e3 == Event("unpad", r.Yp.data, 0)
        u  == [indices |-> p.unpad.indices,
               lengths |-> [b \in 1..Len(Xs) |-> p.data.shape[1]]]
    IN  IF ~p.ok THEN Raise(p.err, <<e1>>)
        ELSE IF ~r.ok THEN Raise(r.err, <<e1, e2>>)
        ELSE Return(unpad(u, r.Yp.data), <<e1, e2, e3>>, r.bp)

\* forward that falls back to an empty result when padding fails
forward_fallback(Xs, is_train) ==
    LET p  == square_sequences(Xs)
        Xp == Padded(p.data, p.size_at_t)
        r  == layer_forward(Xp, is_train)
        e1 == Event("square_sequences", Xs, 0)
        e2 == Event("layer", Xp, is_train)
        e3 == Event("unpad", r.Yp.data, 0)
    IN  IF ~p.ok THEN Return(<<>>, <<e1>>, 0)
        ELSE IF ~r.ok THEN Raise(r.err, <<e1, e2>>)
        ELSE Return(unpad(p.unpad, r.Yp.data), <<e1, e2, e3>>, r.bp)

\* forward that refuses an empty batch
forward_refuses_empty(Xs, is_train) ==
    LET p  == square_sequences(Xs)
        Xp == Padded(p.data, p.size_at_t)
        r  == layer_forward(Xp, is_train)
        e1 == Event("square_sequences", Xs, 0)
        e2 == Event("layer", Xp, is_train)
        e3 == Event("unpad", r.Yp.data, 0)
    IN  IF Xs = <<>> THEN Raise("ValueError", <<>>)
        ELSE IF ~p.ok THEN Raise(p.err, <<e1>>)
        ELSE IF ~r.ok THEN Raise(r.err, <<e1, e2>>)
        ELSE Return(unpad(p.unpad, r.Yp.data), <<e1, e2, e3>>, r.bp)

\* forward that hands the layer the sorted lengths in place of size_at_t
forward_lengths(Xs, is_train) ==
    LET p  == square_sequences(Xs)
        Xp == Padded(p.data, p.unpad.lengths)
        r  == layer_forward(Xp, is_train)
        e1 == Event("square_sequences", Xs, 0)
        e2 == Event("layer", Xp, is_train)
        e3 == Event("unpad", r.Yp.data, 0)
    IN  IF ~p.ok THEN Raise(p.err, <<e1>>)
        ELSE IF ~r.ok THEN Raise(r.err, <<e1, e2>>)
        ELSE Return(unpad(p.unpad, r.Yp.data), <<e1, e2, e3>>, r.bp)

forward(Xs, is_train) ==
    LET p  == square_sequences(Xs)
        Xp == Padded(p.data, p.size_at_t)
        r  == layer_forward(Xp, is_train)
        e1 == Event("square_sequences", Xs, 0)
        e2 == Event("layer", Xp, is_train)
        e3 == Event("unpad", r.Yp.data, 0)
    IN  IF ~p.ok THEN Raise(p.err, <<e1>>)
        ELSE IF ~r.ok THEN Raise(r.err, <<e1, e2>>)
        ELSE Return(unpad(p.unpad, r.Yp.data), <<e1, e2, e3>>, r.bp)

\* backprop that unpads with the unpad callback of the forward pass
\* (numpy slicing: a slice past the end is cut short, a missing batch column
\* is an IndexError)
backprop_forward_unpad(backprop_layer, dYs) ==
    LET p   == square_sequences(dYs)
        dYp == Padded(p.data, p.size_at_t)
        r   == layer_backward(backprop_layer, dYp)
        e1  == Event("square_sequences", dYs, 0)
        e2  == Event("backprop_layer", dYp, backprop_layer)
        e3  == Event("unpad", r.dXp.data, 0)
        fu  == square_sequences(hist.Xs).unpad
        T   == r.dXp.data.shape[1]
        u   == [indices |-> fu.indices,
                lengths |-> [b \in 1..Len(fu.lengths) |->
                               IF fu.lengths[b] < T THEN fu.lengths[b] ELSE T]]
    IN  IF ~p.ok THEN Raise(p.err, <<e1>>)
        ELSE IF ~r.ok THEN Raise(r.err, <<e1, e2>>)
        ELSE IF Len(fu.indices) # r.dXp.data.shape[2]
             THEN Raise("IndexError", <<e1, e2, e3>>)
        ELSE Return(unpad(u, r.dXp.data), <<e1, e2, e3>>, 0)

\* backprop that returns the gradients in the padded (length-sorted) order
backprop_sorted_order(backprop_layer, dYs) ==
    LET p   == square_sequences(dYs)
        dYp == Padded(p.data, p.size_at_t)
        r   == layer_backward(backprop_layer, dYp)
        e1  == Event("square_sequences", dYs, 0)
        e2  == Event("backprop_layer", dYp, backprop_layer)
        e3  == Event("unpad", r.dXp.data, 0)
        u   == [indices |-> [b \in 1..Len(dYs) |-> b], lengths |-> p.unpad.lengths]
    IN  IF ~p.ok THEN Raise(p.err, <<e1>>)
        ELSE IF ~r.ok THEN Raise(r.err, <<e1, e2>>)
        ELSE Return(unpad(u, r.dXp.data), <<e1, e2, e3>>, 0)

\* backprop that runs the layer forwards again before going backwards
backprop_reforward(backprop_layer, dYs) ==
    LET p   == square_sequences(dYs)
        dYp == Padded(p.data, p.size_at_t)
        r   == layer_backward(backprop_layer, dYp)
        e1  == Event("square_sequences", dYs, 0)
        e0  == Event("layer", dYp, FALSE)
        e2  == Event("backprop_layer", dYp, backprop_layer)
        e3  == Event("unpad", r.dXp.data, 0)
    IN  IF ~p.ok THEN Raise(p.err, <<e1>>)
        ELSE IF ~r.ok THEN Raise(r.err, <<e1, e0, e2>>)
        ELSE Return(unpad(p.unpad, r.dXp.data), <<e1, e0, e2, e3>>, 0)

\* backprop that calls the layer closure of the latest forward call, as if
\* it were kept on the model and not captured
backprop_latest(backprop_layer, dYs) ==
    LET bl  == closures[Len(closures)].bp
        p   == square_sequences(dYs)
        dYp == Padded(p.data, p.size_at_t)
        r   == layer_backward(bl, dYp)
        e1  == Event("square_sequences", dYs, 0)
        e2  == Event("backprop_layer", dYp, bl)
        e3  == Event("unpad", r.dXp.data, 0)
    IN  IF ~p.ok THEN Raise(p.err, <<e1>>)
        ELSE IF ~r.ok THEN Raise(r.err, <<e1, e2>>)
        ELSE Return(unpad(p.unpad, r.dXp.data), <<e1, e2, e3>>, 0)

\* the closure forward returns; backprop_layer is the layer closure it captured
backprop(backprop_layer, dYs) ==
    LET p   == square_sequences(dYs)
        dYp == Padded(p.data, p.size_at_t)
        r   == layer_backward(backprop_layer, dYp)
        e1  == Event("square_sequences", dYs, 0)
        e2  == Event("backprop_layer", dYp, backprop_layer)
        e3  == Event("unpad", r.dXp.data, 0)
    IN  IF ~p.ok THEN Raise(p.err, <<e1>>)
        ELSE IF ~r.ok THEN Raise(r.err, <<e1, e2>>)
        ELSE Return(unpad(p.unpad, r.dXp.data), <<e1, e2, e3>>, 0)

_maybe_get_padded(seqs) ==
    LET p == square_sequences(seqs[1])
        e == Event("square_sequences", seqs[1], 0)
    IN  IF seqs = <<>> THEN [ok |-> TRUE, err |-> NoError, val |-> <<>>, events |-> <<>>]
        ELSE IF ~p.ok THEN [ok |-> FALSE, err |-> p.err, val |-> <<>>, events |-> <<e>>]
        ELSE [ok |-> TRUE, err |-> NoError,
              val |-> <<Padded(p.data, p.size_at_t)>>, events |-> <<e>>]

\* init that pads X for both examples
init_pads_X_twice(X, Y) ==
    LET px == _maybe_get_padded(X)
        py == _maybe_get_padded(X)
        r  == layer_initialize(px.val, py.val)
        e  == Event("initialize", px.val, py.val)
    IN  IF ~px.ok THEN Raise(px.err, px.events)
        ELSE IF ~py.ok THEN Raise(py.err, px.events \o py.events)
        ELSE IF ~r.ok THEN Raise(r.err, px.events \o py.events \o <<e>>)
        ELSE Return(<<>>, px.events \o py.events \o <<e>>, 0)

init(X, Y) ==
    LET px == _maybe_get_padded(X)
        py == _maybe_get_padded(Y)
        r  == layer_initialize(px.val, py.val)
        e  == Event("initialize", px.val, py.val)
    IN  IF ~px.ok THEN Raise(px.err, px.events)
        ELSE IF ~py.ok THEN Raise(py.err, px.events \o py.events)
        ELSE IF ~r.ok THEN Raise(r.err, px.events \o py.events \o <<e>>)
        ELSE Return(<<>>, px.events \o py.events \o <<e>>, 0)

(***************************************************************************)
(* Inputs.  Cell f of row t of item i holds 100*i + 10*t + f, so every row *)
(* of a batch is different and any mix-up of items or timesteps shows.     *)
(* All items have 2 features, except that the last item of a batch may     *)
(* have 3: inconsistent feature dimensionality in a batch of two or more.  *)
(***************************************************************************)
\* the lengths, and the shapes, of the sequences of a batch
Lens(b) == [i \in 1..Len(b) |-> Len(b[i].rows)]

Shapes(b) == [i \in 1..Len(b) |-> <<Len(b[i].rows), b[i].w>>]

MkArray(i, len, w) ==
    [w |-> w, rows |-> [t \in 1..len |-> [f \in 1..w |-> 100 * i + 10 * t + f]]]

MkBatch(lens, odd) ==
    [i \in 1..Len(lens) |-> MkArray(i, lens[i], IF i = odd THEN 3 ELSE 2)]

Odds(n) == IF n >= 1 THEN {0, n} ELSE {0}

BatchesOf(maxN, maxLen) ==
    UNION { UNION { { MkBatch(lens, odd) : odd \in Odds(n) } :
                    lens \in [1..n -> 1..maxLen] } : n \in 0..maxN }

Batches == BatchesOf(MaxN, MaxLen)

\* example batches for initialize, absent or present
Examples == {<<>>} \cup { <<b>> : b \in BatchesOf(MaxN - 1, MaxLen) }

\* batches of the interleaved calls of SpecCalls
CallBatches == BatchesOf(MaxN - 1, 1)

(***************************************************************************)
(* State.                                                                  *)
(*   layer     the inner layer the adapter was constructed with            *)
(*   closures  the backward closures forward has returned, in order: the   *)
(*             layer closure each captured (bp) and the forward call that  *)
(*             returned it (call)                                          *)
(*   issued    kept by the layer: issued[id] is the forward call during    *)
(*             which it handed out closure id                              *)
(*   ncalls    forward calls made so far                                   *)
(*   last      the latest call: its arguments, the collaborator calls it   *)
(*             made and what it returned                                   *)
(*   hist      the input batch of the latest successful forward call and   *)
(*             the shapes of its output (recorded in Spec only)            *)
(***************************************************************************)
NoCall ==
    [op |-> "none", arg |-> <<>>, flag |-> FALSE, c |-> 0,
     ok |-> TRUE, err |-> NoError, events |-> <<>>, out |-> <<>>]

NoHist == [set |-> FALSE, Xs |-> <<>>, Yshapes |-> <<>>]

Init ==
    /\ layer \in LayerKinds
    /\ closures = <<>>
    /\ issued = <<>>
    /\ ncalls = 0
    /\ last = NoCall
    /\ hist = NoHist

Forward(Xs, is_train) ==
    \E r \in {forward(Xs, is_train)} :
        /\ ncalls' = ncalls + 1
        /\ closures' = IF r.ok
                       THEN Append(closures, [bp |-> r.bp, call |-> ncalls + 1])
                       ELSE closures
        /\ issued' = IF r.ok THEN Append(issued, ncalls + 1) ELSE issued
        /\ last' = [op |-> "forward", arg |-> Xs, flag |-> is_train, c |-> 0,
                    ok |-> r.ok, err |-> r.err, events |-> r.events, out |-> r.out]
        /\ UNCHANGED layer

Backprop(c, dYs) ==
    \E r \in {backprop(closures[c].bp, dYs)} :
        /\ last' = [op |-> "backprop", arg |-> dYs, flag |-> FALSE, c |-> c,
                    ok |-> r.ok, err |-> r.err, events |-> r.events, out |-> r.out]
        /\ UNCHANGED <<layer, closures, issued, ncalls, hist>>

Initialize(X, Y) ==
    \E r \in {init(X, Y)} :
        /\ last' = [op |-> "init", arg |-> <<X, Y>>, flag |-> FALSE, c |-> 0,
                    ok |-> r.ok, err |-> r.err, events |-> r.events, out |-> r.out]
        /\ UNCHANGED <<layer, closures, issued, ncalls, hist>>

(***************************************************************************)
(* Spec: the operations one at a time, on an adapter just constructed:    *)
(* either initialize with example batches, or forward and then the closure *)
(* it returned, called with a batch of gradients.                          *)
(***************************************************************************)
DoInitialize ==
    /\ last.op = "none"
    /\ \E X \in Examples, Y \in Examples : Initialize(X, Y)

DoForward ==
    /\ last.op = "none"
    /\ \E Xs \in Batches, is_train \in BOOLEAN :
          /\ Forward(Xs, is_train)
          /\ hist' = IF last'.ok
                     THEN [set |-> TRUE, Xs |-> Xs, Yshapes |-> Shapes(last'.out)]
                     ELSE hist

DoBackprop ==
    /\ last.op = "forward"
    /\ \E c \in 1..Len(closures), dYs \in Batches : Backprop(c, dYs)

Next == DoInitialize \/ DoForward \/ DoBackprop

Spec == Init /\ [][Next]_vars

(***************************************************************************)
(* SpecCalls: forward, the closures it returned and initialize, called in  *)
(* any order.                                                              *)
(***************************************************************************)
CallInitialize ==
    \E X \in {<<>>} \cup {<<b>> : b \in CallBatches},
       Y \in {<<>>} \cup {<<b>> : b \in CallBatches} : Initialize(X, Y)

CallForward ==
    /\ ncalls < MaxForward
    /\ \E Xs \in CallBatches, is_train \in BOOLEAN :
          Forward(Xs, is_train) /\ UNCHANGED hist

CallBackprop ==
    \E c \in 1..Len(closures), dYs \in CallBatches : Backprop(c, dYs)

NextCalls == CallInitialize \/ CallForward \/ CallBackprop

SpecCalls == Init /\ [][NextCalls]_vars

(***************************************************************************)
(* Properties.                                                             *)
(***************************************************************************)
CallNames(events) == [k \in 1..Len(events) |-> events[k].call]

IsPrefix(a, b) == Len(a) <= Len(b) /\ a = SubSeq(b, 1, Len(a))

Consistent(b) == \A i, j \in 1..Len(b) : b[i].w = b[j].w

\* the first len timesteps of batch column b of a padded array
ColumnOf(arr, b, len) == [t \in 1..len |-> arr.cells[t][b]]

\* item i of batch Xs sits in column b of padded array Xd, and out is that
\* column of padded array Yd cut to the item's length
SliceOfItem(out, Xs, i, Xd, Yd) ==
    \E b \in 1..Yd.shape[2] :
        /\ ColumnOf(Xd, b, Len(Xs[i].rows)) = Xs[i].rows
        /\ out.rows = ColumnOf(Yd, b, Len(Xs[i].rows))
        /\ out.w = Yd.shape[3]

\* padded pd is the time-major padding of batch b with its active counts
WellPadded(pd, b) ==
    LET T == pd.data.shape[1]
    IN  /\ T = Max({Len(b[i].rows) : i \in 1..Len(b)})
        /\ pd.data.shape[2] = Len(b)
        /\ Len(b) > 0 => pd.data.shape[3] = b[1].w
        /\ Len(pd.data.cells) = T
        /\ \A t \in 1..T :
             /\ Len(pd.data.cells[t]) = Len(b)
             /\ \A c \in 1..Len(b) : Len(pd.data.cells[t][c]) = pd.data.shape[3]
        /\ Len(pd.size_at_t) = T
        /\ \A t \in 1..T :
             pd.size_at_t[t] = Cardinality({i \in 1..Len(b) : Len(b[i].rows) > t - 1})
        /\ \A t \in 1..(T - 1) : pd.size_at_t[t] >= pd.size_at_t[t + 1]

\* C1: a successful forward(Xs, is_train) returns one output per input, in
\* the original order: output i is the slice, of the length of Xs[i], of the
\* layer's padded output in the batch column that holds Xs[i]; with a layer
\* that keeps shapes (identity, shift) the outputs have the inputs' shapes.
C1_ForwardOutput ==
    (last.op = "forward" /\ last.ok) =>
        /\ Len(last.out) = Len(last.arg)
        /\ \A i \in 1..Len(last.arg) :
             /\ Len(last.out[i].rows) = Len(last.arg[i].rows)
             /\ SliceOfItem(last.out[i], last.arg, i,
                            last.events[2].arg.data, last.events[3].arg)
        /\ layer \in {"identity", "shift"} => Shapes(last.out) = Shapes(last.arg)

C1_Witness ==
    /\ last.op = "forward" /\ last.ok /\ layer = "shift"
    /\ Lens(last.arg) = <<1, 2, 2>>
    /\ Lens(last.out) = <<1, 2, 2>>

\* C2 as claimed: backprop called with as many gradient arrays as forward had
\* inputs returns arrays of the shapes of the forward inputs.
C2_Original ==
    (last.op = "backprop" /\ last.ok /\ Len(last.arg) = Len(hist.Xs)) =>
        Shapes(last.out) = Shapes(hist.Xs)

\* C2 amended: backprop called with N gradient arrays returns N arrays, and
\* they have the shapes of the forward inputs, position by position, when
\* the gradient arrays have the shapes of the forward outputs.
C2_ShapeSymmetry ==
    (last.op = "backprop" /\ last.ok) =>
        /\ Len(last.out) = Len(last.arg)
        /\ Shapes(last.arg) = hist.Yshapes => Shapes(last.out) = Shapes(hist.Xs)

C2_Witness ==
    /\ last.op = "backprop" /\ last.ok
    /\ Shapes(last.arg) = hist.Yshapes
    /\ Lens(hist.Xs) = <<2, 1, 2>>
    /\ Shapes(last.out) = Shapes(hist.Xs)

\* C3: backprop(dYs) returns the sequences of dYs' own padding: as many as
\* dYs, in the order of dYs, each of the length of dYs[i] and cut from the
\* layer's input-gradient in the column that holds dYs[i], whatever the
\* forward input was.
C3_BackpropFollowsGradients ==
    (last.op = "backprop" /\ last.ok) =>
        /\ Len(last.out) = Len(last.arg)
        /\ \A i \in 1..Len(last.arg) :
             /\ Len(last.out[i].rows) = Len(last.arg[i].rows)
             /\ SliceOfItem(last.out[i], last.arg, i,
                            last.events[2].arg.data, last.events[3].arg)

C3_Witness ==
    /\ last.op = "backprop" /\ last.ok
    /\ Lens(hist.Xs) = <<1, 2, 2>>
    /\ Lens(last.arg) = <<2, 1>>
    /\ Lens(last.out) = <<2, 1>>

\* C4: with the identity layer forward returns its input batch and backprop
\* returns dYs, same content in the same order: unpad undoes pad.
C4_RoundTrip ==
    (layer = "identity" /\ last.ok /\ last.op \in {"forward", "backprop"}) =>
        last.out = last.arg

C4_Witness ==
    /\ layer = "identity" /\ last.op = "forward" /\ last.ok
    /\ Lens(last.arg) = <<1, 2, 1>>
    /\ last.out = last.arg

\* C5: a failure ends the call with the collaborator's error and nothing
\* after the failing call: a batch of inconsistent widths fails forward and
\* backprop with ShapeMismatch before the layer is invoked, and forward then
\* returns no closure; a failing layer fails forward, and initialize, with
\* its own error after one invocation; an example of inconsistent widths
\* fails initialize before the layer is initialized; a failed call returns
\* nothing.
C5_FailuresPropagate ==
    /\ (last.op = "forward" /\ ~Consistent(last.arg)) =>
          /\ ~last.ok /\ last.err = ShapeMismatch
          /\ CallNames(last.events) = <<"square_sequences">>
          /\ closures = <<>>
    /\ (last.op = "forward" /\ Consistent(last.arg) /\ layer = "raises") =>
          /\ ~last.ok /\ last.err = LayerError
          /\ CallNames(last.events) = <<"square_sequences", "layer">>
          /\ closures = <<>>
    /\ (last.op = "backprop" /\ ~Consistent(last.arg)) =>
          /\ ~last.ok /\ last.err = ShapeMismatch
          /\ CallNames(last.events) = <<"square_sequences">>
    /\ (last.op = "init" /\ layer = "raises"
          /\ \A k \in 1..2 : last.arg[k] # <<>> => Consistent(last.arg[k][1])) =>
          /\ ~last.ok /\ last.err = LayerError
          /\ last.events[Len(last.events)].call = "initialize"
          /\ Cardinality({k \in 1..Len(last.events) :
                            last.events[k].call = "initialize"}) = 1
    /\ (last.op = "init"
          /\ \E k \in 1..2 : last.arg[k] # <<>> /\ ~Consistent(last.arg[k][1])) =>
          /\ ~last.ok /\ last.err = ShapeMismatch
          /\ \A k \in 1..Len(last.events) : last.events[k].call = "square_sequences"
    /\ ~last.ok => last.out = <<>> /\ last.err # NoError
    /\ last.ok => last.err = NoError

C5_Witness ==
    /\ last.op = "forward" /\ ~last.ok /\ last.err = ShapeMismatch
    /\ Len(last.arg) = 3 /\ closures = <<>>

\* the padded form _maybe_get_padded is to pass for an example
PaddedForm(opt) ==
    IF opt = <<>> THEN <<>>
    ELSE <<[data |-> square_sequences(opt[1]).data,
            size_at_t |-> square_sequences(opt[1]).size_at_t]>>

\* C6: initialize pads each example that is provided, X before Y, and then
\* calls the layer's initialize once, with the padded form of each example
\* provided and with the absent ones absent; with both absent it pads
\* nothing.
C6_InitializePadsEach ==
    (last.op = "init"
       /\ \A k \in 1..2 : last.arg[k] # <<>> => Consistent(last.arg[k][1])) =>
        LET X == last.arg[1]
            Y == last.arg[2]
            n == Len(X) + Len(Y)
        IN  /\ Len(last.events) = n + 1
            /\ [k \in 1..n |-> last.events[k].arg] = X \o Y
            /\ \A k \in 1..n : last.events[k].call = "square_sequences"
            /\ last.events[n + 1] = Event("initialize", PaddedForm(X), PaddedForm(Y))

C6_Witness ==
    /\ last.op = "init" /\ last.ok
    /\ last.arg[1] = <<>> /\ last.arg[2] # <<>>
    /\ Lens(last.arg[2][1]) = <<1, 2>>
    /\ last.events[2].arg = <<>> /\ last.events[2].aux # <<>>

\* C7: an empty batch is padded to an empty array with an empty active-count
\* sequence; forward of it, and backprop of no gradients, succeed with an
\* empty result (the layer not failing).
C7_EmptyBatch ==
    (last.op \in {"forward", "backprop"} /\ last.arg = <<>> /\ layer # "raises") =>
        /\ last.ok
        /\ last.out = <<>>
        /\ last.events[2].arg.data.cells = <<>>
        /\ last.events[2].arg.data.shape[1] = 0
        /\ last.events[2].arg.data.shape[2] = 0
        /\ last.events[2].arg.size_at_t = <<>>

C7_Witness ==
    /\ last.op = "backprop" /\ last.ok /\ last.arg = <<>> /\ last.out = <<>>
    /\ hist.set /\ hist.Xs = <<>>

\* C8: the padded batch given to the layer by forward, by backprop and by
\* initialize is time-major of shape (max_length, batch_size, features) and
\* its size_at_t has max_length entries, is non-increasing, and counts at
\* timestep t the items longer than t.
C8_PaddedWellFormed ==
    /\ (last.op \in {"forward", "backprop"} /\ Len(last.events) >= 2) =>
          WellPadded(last.events[2].arg, last.arg)
    /\ (last.op = "init" /\ last.events # <<>>
          /\ last.events[Len(last.events)].call = "initialize") =>
          LET e == last.events[Len(last.events)]
          IN  /\ Len(e.arg) = Len(last.arg[1])
              /\ Len(e.aux) = Len(last.arg[2])
              /\ e.arg # <<>> => WellPadded(e.arg[1], last.arg[1][1])
              /\ e.aux # <<>> => WellPadded(e.aux[1], last.arg[2][1])

C8_Witness ==
    /\ last.op = "backprop" /\ last.ok
    /\ Lens(last.arg) = <<2, 1, 2>>
    /\ last.events[2].arg.size_at_t = <<3, 2>>

\* C9: forward pads once, invokes the layer once with its is_train, unpads
\* once, in this order, and never invokes a layer closure; backprop pads
\* dYs once, invokes once the layer closure it captured, unpads once, and
\* never invokes the layer forwards; initialize invokes neither.
C9_CallOrder ==
    /\ last.op = "forward" =>
          /\ IsPrefix(CallNames(last.events), <<"square_sequences", "layer", "unpad">>)
          /\ last.ok => Len(last.events) = 3
          /\ last.events[1].arg = last.arg
          /\ Len(last.events) >= 2 => last.events[2].aux = last.flag
    /\ last.op = "backprop" =>
          /\ IsPrefix(CallNames(last.events),
                      <<"square_sequences", "backprop_layer", "unpad">>)
          /\ last.ok => Len(last.events) = 3
          /\ last.events[1].arg = last.arg
          /\ Len(last.events) >= 2 => last.events[2].aux = closures[last.c].bp
    /\ last.op = "init" =>
          \A k \in 1..Len(last.events) :
              last.events[k].call \in {"square_sequences", "initialize"}
    /\ Len(issued) = Len(closures)

C9_Witness ==
    /\ last.op = "backprop" /\ last.ok
    /\ CallNames(last.events) = <<"square_sequences", "backprop_layer", "unpad">>
    /\ Len(last.arg) = 2

\* the closure of forward call k invokes the layer closure handed out
\* during forward call k
C10_Bound ==
    /\ (last.op = "backprop" /\ Len(last.events) >= 2) =>
          /\ last.events[2].call = "backprop_layer"
          /\ issued[last.events[2].aux] = closures[last.c].call
    /\ \A c, d \in 1..Len(closures) : c # d => closures[c].call # closures[d].call

\* a call repeated with the same arguments gives the same result, and only
\* a successful forward adds a closure
C10_Step ==
    /\ (last'.op = last.op /\ last'.arg = last.arg /\ last'.flag = last.flag
          /\ last'.c = last.c) =>
          (last'.ok = last.ok /\ last'.out = last.out /\ last'.err = last.err)
    /\ closures' # closures =>
          (last'.op = "forward" /\ last'.ok /\ Len(closures') = Len(closures) + 1
             /\ SubSeq(closures', 1, Len(closures)) = closures)

====
